---- MODULE Spec2Model ----
(***************************************************************************)
(* A model of the real-time transcription client of the AssemblyAI Go SDK  *)
(* (realtime.go): one RealTimeClient, the goroutine calling its methods    *)
(* (the caller), the dispatcher goroutine started by Connect, and the      *)
(* environment: the WebSocket server, the transport and the context.       *)
(*                                                                         *)
(* One client object carries one session: Connect is called at most once.  *)
(***************************************************************************)
EXTENDS Integers, Sequences, FiniteSets, TLC

VARIABLES
    transcriber,  \* c.transcriber: the set of callbacks that are non-nil
    conn,         \* c.conn: "nil", "open" or "closed"
    sessionOpen,  \* c.sessionOpen
    done,         \* c.done: "nil" or "made" (an unbuffered channel)
    ctx,          \* the context handed to every call: "live" or "cancelled"
    peer,         \* the server's end of the socket: "up" or "closed"
    inbox,        \* messages sent by the server, not yet read by the client
    wire,         \* history: every frame the client wrote to the transport
    cb,           \* history: every callback invocation, in order
    rxn,          \* history: number of messages read by the dispatcher
    dmsg,         \* the message the dispatcher read last
    hmsg,         \* history: the handshake message read by Connect
    cpc,          \* the caller's position
    cop,          \* the call the caller is in
    ret,          \* the last call that returned, with its result
    dpc,          \* the dispatcher's position
    spawned,      \* history: number of dispatcher goroutines started
    doneFired,    \* history: a value was passed over c.done
    srvSent,      \* number of messages the server sent on its own
    replied,      \* the server answered terminate_session
    calls,        \* number of calls the caller issued
    config,       \* the client's configuration fields and baseURL.RawQuery
    request       \* the HTTP request of the last websocket.Dial

vars == <<transcriber, conn, sessionOpen, done, ctx, peer, inbox, wire, cb, rxn,
          dmsg, hmsg, cpc, cop, ret, dpc, spawned, doneFired, srvSent, replied, calls,
          config, request>>

----------------------------------------------------------------------------
(* Bounds of the model. *)

\* messages the server sends on its own after the handshake message
MaxServerMsgs == 1

\* calls the caller issues on the client
MaxCalls == 3

----------------------------------------------------------------------------
(* Program constants. *)

MessageTypeSessionBegins == "SessionBegins"

MessageTypeSessionTerminated == "SessionTerminated"

MessageTypePartialTranscript == "PartialTranscript"

MessageTypeFinalTranscript == "FinalTranscript"

MessageTypeSessionInformation == "SessionInformation"

ErrSessionClosed == "session closed"

\* the fields of RealTimeTranscriber
Callbacks ==
    {"OnSessionBegins", "OnSessionTerminated", "OnSessionInformation",
     "OnPartialTranscript", "OnFinalTranscript", "OnError"}

----------------------------------------------------------------------------
(* Client configuration and the connection query.  A string that ends up   *)
(* in the query is a sequence of lexemes: a run of characters that         *)
(* url.QueryEscape leaves alone is one lexeme, every other character is a  *)
(* lexeme of its own.  The empty string is <<>>.                           *)

RealTimeEncodingPCMS16LE == <<"pcm_s16le">>

RealTimeEncodingPCMMulaw == <<"pcm_mulaw">>

\* the characters of the model that url.QueryEscape rewrites
Reserved == {"[", "]", "\"", ",", "=", "&", " ", "%", "+"}

\* url.QueryEscape of one reserved character
PercentCode(c) ==
    CASE c = "[" -> "%5B" [] c = "]" -> "%5D" [] c = "\"" -> "%22"
      [] c = "," -> "%2C" [] c = "=" -> "%3D" [] c = "&" -> "%26"
      [] c = " " -> "+"   [] c = "%" -> "%25" [] c = "+" -> "%2B"

\* mutant: values are put in the query as they are
QueryEscape_Raw(s) == s

QueryEscape(s) ==
    [i \in 1..Len(s) |-> IF s[i] \in Reserved THEN PercentCode(s[i]) ELSE s[i]]

QueryUnescape(s) ==
    [i \in 1..Len(s) |->
        IF \E c \in Reserved : PercentCode(c) = s[i]
        THEN CHOOSE c \in Reserved : PercentCode(c) = s[i]
        ELSE s[i]]

\* strconv.Itoa
Itoa(n) == <<ToString(n)>>

RECURSIVE JoinQuoted(_)
JoinQuoted(ws) ==
    IF ws = <<>> THEN <<>>
    ELSE <<"\"", Head(ws), "\"">>
           \o (IF Len(ws) > 1 THEN <<",">> \o JoinQuoted(Tail(ws)) ELSE <<>>)

\* json.Marshal of a []string of plain words
JSONMarshal(ws) == <<"[">> \o JoinQuoted(ws) \o <<"]">>

\* url.Values as a set of <<key, value>> pairs; values.Set(k, v)
Set(values, k, v) == {p \in values : p[1] # k} \cup {<<k, v>>}

\* the keys of the query in the order url.Values.Encode sorts them
SortedKeys ==
    << "disable_partial_transcripts", "enable_extra_session_information",
       "encoding", "sample_rate", "token", "word_boost" >>

RECURSIVE EncodeFrom(_, _)
EncodeFrom(values, i) ==
    IF i > Len(SortedKeys) THEN <<>>
    ELSE LET k == SortedKeys[i]
             rest == EncodeFrom(values, i + 1)
             here == {p \in values : p[1] = k}
         IN  IF here = {} THEN rest
             ELSE LET item == <<k, "=">> \o QueryEscape((CHOOSE p \in here : TRUE)[2])
                  IN  IF rest = <<>> THEN item ELSE item \o <<"&">> \o rest

\* url.Values.Encode: "key=escaped value" joined by "&", sorted by key
Encode(values) == EncodeFrom(values, 1)

\* c.sampleRate > 0
HasSampleRate(n) == n > 0

\* mutant: partial transcripts are never disabled
DisablesPartialTranscripts_Never(t) == FALSE

\* c.transcriber.OnPartialTranscript == nil
DisablesPartialTranscripts(t) == "OnPartialTranscript" \notin t

\* the url.Values of queryFromOptions for configuration c and callbacks t
queryValues(c, t) ==
    LET v1 == IF c.token # <<>> THEN Set({}, "token", c.token) ELSE {}
        v2 == IF HasSampleRate(c.sampleRate)
              THEN Set(v1, "sample_rate", Itoa(c.sampleRate)) ELSE v1
        v3 == IF c.encoding # <<>> THEN Set(v2, "encoding", c.encoding) ELSE v2
        v4 == IF Len(c.wordBoost) > 0
              THEN Set(v3, "word_boost", JSONMarshal(c.wordBoost)) ELSE v3
        v5 == IF DisablesPartialTranscripts(t)
              THEN Set(v4, "disable_partial_transcripts", <<"true">>) ELSE v4
        v6 == IF "OnSessionInformation" \in t
              THEN Set(v5, "enable_extra_session_information", <<"true">>) ELSE v5
    IN  v6

queryFromOptions(c, t) == Encode(queryValues(c, t))

\* the callbacks WithHandler registers
HandlerCallbacks ==
    {"OnSessionBegins", "OnSessionTerminated", "OnPartialTranscript",
     "OnFinalTranscript", "OnError"}

\* the options of a client with an API key and a transcriber
Options(handlers) ==
    [apiKey |-> <<"api-key">>, token |-> <<>>, sampleRate |-> 0, encoding |-> <<>>,
     wordBoost |-> <<>>, transcriberSet |-> "WithRealTimeTranscriber",
     handlers |-> handlers]

\* no dial yet
NoRequest == [header |-> {}, query |-> <<>>, dialed |-> FALSE]

\* the request of websocket.Dial(ctx, c.baseURL.String(), opts)
DialRequest ==
    [header |-> IF config.apiKey # <<>> THEN {<<"Authorization", config.apiKey>>}
                ELSE {},
     query |-> config.rawQuery,
     dialed |-> TRUE]

\* the index of the first "&" of q, Len(q) + 1 when there is none
RECURSIVE Ampersand(_, _)
Ampersand(q, i) ==
    IF i > Len(q) \/ q[i] = "&" THEN i ELSE Ampersand(q, i + 1)

\* url.ParseQuery, as r.URL.Query() on the server
RECURSIVE ParseQuery(_)
ParseQuery(q) ==
    IF q = <<>> THEN {}
    ELSE LET n == Ampersand(q, 1)
             part == SubSeq(q, 1, n - 1)
             value == IF Len(part) >= 2 /\ part[2] = "="
                      THEN SubSeq(part, 3, Len(part)) ELSE <<>>
         IN  (IF part = <<>> THEN {} ELSE {<<part[1], QueryUnescape(value)>>})
                 \cup ParseQuery(SubSeq(q, n + 1, Len(q)))

\* url.Values.Has
Has(values, k) == \E p \in values : p[1] = k

\* url.Values.Get
Get(values, k) ==
    IF Has(values, k) THEN (CHOOSE p \in values : p[1] = k)[2] ELSE <<>>

----------------------------------------------------------------------------
(* Inbound messages.  A message is a JSON value; the model keeps what the  *)
(* decoders look at: whether it is a JSON object, its message_type, text   *)
(* and error fields, and whether the remaining fields have the JSON types  *)
(* the Go structs declare.  BadType stands for a value of the wrong JSON   *)
(* type (a number where a string is declared), Absent for a missing field. *)

BadType == "<badtype>"

Absent == ""

Msg(mt, text, err, rest, object) ==
    [mt |-> mt, text |-> text, err |-> err, rest |-> rest, object |-> object]

\* no message read yet
NoMsg == Msg(Absent, Absent, Absent, "none", FALSE)

\* first messages the server may send: SessionBegins, an error envelope, or
\* something that does not decode
HandshakeMsgs ==
    { Msg(MessageTypeSessionBegins, Absent, Absent, "ok", TRUE),
      Msg(Absent, Absent, "boom", "ok", TRUE),
      Msg(MessageTypeSessionBegins, Absent, "boom", "ok", TRUE),
      Msg(MessageTypeSessionBegins, Absent, Absent, "bad", TRUE),
      Msg(Absent, Absent, Absent, "ok", FALSE) }

\* first messages of a server that does not open with SessionBegins: well
\* formed, no error field, another discriminator
OtherFirstMsgs ==
    { Msg(MessageTypeFinalTranscript, "foo", Absent, "ok", TRUE),
      Msg(MessageTypePartialTranscript, "foo", Absent, "ok", TRUE),
      Msg(MessageTypeSessionTerminated, Absent, Absent, "ok", TRUE),
      Msg(MessageTypeSessionInformation, Absent, Absent, "ok", TRUE) }

\* messages the server may send during the session
SessionMsgs ==
    { Msg(MessageTypePartialTranscript, "foo", Absent, "ok", TRUE),
      Msg(MessageTypePartialTranscript, "", Absent, "ok", TRUE),
      Msg(MessageTypeFinalTranscript, "Foo.", Absent, "ok", TRUE),
      Msg(MessageTypeFinalTranscript, "", Absent, "ok", TRUE),
      Msg(MessageTypeFinalTranscript, "Foo.", Absent, "bad", TRUE),
      Msg(MessageTypeSessionTerminated, Absent, Absent, "ok", TRUE),
      Msg(MessageTypeSessionInformation, Absent, Absent, "ok", TRUE),
      Msg(MessageTypeSessionInformation, Absent, Absent, "bad", TRUE),
      Msg("SomethingNew", Absent, Absent, "ok", TRUE),
      Msg(BadType, Absent, Absent, "ok", TRUE) }

\* json.Unmarshal(msg, &realtimeError): fails unless msg is an object whose
\* error field, if present, is a string
UnmarshalRealTimeError(m) == m.object /\ m.err # BadType

\* json.Unmarshal(msg, &session) for SessionBegins: message_type, session_id
\* and expires_at must be strings if present; message_type is not compared
UnmarshalSessionBegins(m) == m.object /\ m.mt # BadType /\ m.rest = "ok"

\* json.Unmarshal(msg, &messageType): the discriminator alone
\* variant: the discriminator decode rejects a type the switch does not know
UnmarshalMessageType_Strict(m) ==
    /\ m.object
    /\ m.mt \in {MessageTypeSessionBegins, MessageTypeSessionTerminated,
                 MessageTypePartialTranscript, MessageTypeFinalTranscript,
                 MessageTypeSessionInformation}

UnmarshalMessageType(m) == m.object /\ m.mt # BadType

\* json.Unmarshal into FinalTranscript / PartialTranscript
\* variant: the transcript decode accepts fields of any JSON type
UnmarshalTranscript_Lenient(m) == m.object /\ m.mt # BadType

UnmarshalTranscript(m) ==
    m.object /\ m.mt # BadType /\ m.text # BadType /\ m.rest = "ok"

\* json.Unmarshal into SessionTerminated: message_type is its only field
UnmarshalSessionTerminated(m) == m.object /\ m.mt # BadType

\* json.Unmarshal into SessionInformation
UnmarshalSessionInformation(m) == m.object /\ m.mt # BadType /\ m.rest = "ok"

----------------------------------------------------------------------------
(* Session state. *)

\* variant: the flag always reads open
isSessionOpen_True == TRUE

isSessionOpen == sessionOpen

\* variant: the flag, once set, is never cleared
setSessionOpen_AlwaysOpen(open) == sessionOpen' = TRUE

setSessionOpen(open) == sessionOpen' = open

----------------------------------------------------------------------------
(* The transport, as the client's calls on it behave. *)

\* websocket.Dial: fails when the context is done or the server refuses
DialResults == IF ctx = "live" /\ peer = "up" THEN {TRUE, FALSE} ELSE {FALSE}

\* c.conn.Write / wsjson.Write on a non-nil connection: fails on a closed
\* connection or a done context; a frame written after the peer went away
\* may still be accepted by the socket.  A write that fails leaves the
\* connection closed, as a failed read does.
WriteResults ==
    IF conn = "open" /\ ctx = "live"
    THEN IF peer = "up" THEN {TRUE} ELSE {TRUE, FALSE}
    ELSE {FALSE}

\* wsjson.Read may return a message
CanRead == conn = "open" /\ inbox # <<>>

\* wsjson.Read may return an error: closed connection, done context, or the
\* peer went away with nothing left to deliver
CanFailRead ==
    \/ conn # "open"
    \/ ctx = "cancelled"
    \/ peer = "closed" /\ inbox = <<>>

\* the ways a wsjson.Read that returns now can return; none while it blocks
ReadResults ==
    (IF CanRead THEN {"message"} ELSE {}) \cup (IF CanFailRead THEN {"error"} ELSE {})

\* c.conn.Close(StatusNormalClosure): the closing handshake succeeds on an
\* open connection whose peer is still there
CloseResult == IF conn = "open" /\ peer = "up" THEN "nil" ELSE "errClose"

\* SessionTerminated has been dispatched: the dispatcher closed the session
Terminated == spawned > 0 /\ ~sessionOpen

\* mutant: audio goes out as a JSON audio_data message
Frame_AudioData(kind, field, value) ==
    [kind |-> "text", field |-> IF kind = "binary" THEN "audio_data" ELSE field,
     value |-> value, open |-> sessionOpen, terminated |-> Terminated]

\* mutant: every frame carries the same payload
Frame_FixedPayload(kind, field, value) ==
    [kind |-> kind, field |-> field, value |-> "foo", open |-> sessionOpen,
     terminated |-> Terminated]

\* a frame written to the transport, with the session state it was written in
Frame(kind, field, value) ==
    [kind |-> kind, field |-> field, value |-> value, open |-> sessionOpen,
     terminated |-> Terminated]

----------------------------------------------------------------------------
(* The caller. *)

NoCall ==
    [name |-> "none", wait |-> FALSE, samples |-> "", threshold |-> 0,
     closedAtIssue |-> FALSE, afterDisconnect |-> FALSE, writes |-> 0]

Samples == {"foo", "bar"}

Thresholds == {350}

Call(name, wait, samples, threshold) ==
    [name |-> name, wait |-> wait, samples |-> samples, threshold |-> threshold,
     closedAtIssue |-> Terminated,
     afterDisconnect |-> ret.op.name = "Disconnect" \/ ret.op.afterDisconnect,
     writes |-> 0]

\* no call has returned since the last one was issued
NoReturn == [op |-> NoCall, val |-> "none"]

Return(val) ==
    /\ ret' = [op |-> cop, val |-> val]
    /\ cop' = NoCall
    /\ cpc' = "idle"

\* the client built from options o, at position pc of its constructor
Fresh(o, pc) ==
    /\ transcriber = o.handlers
    /\ config = [apiKey |-> o.apiKey, token |-> o.token, sampleRate |-> o.sampleRate,
                 encoding |-> o.encoding, wordBoost |-> o.wordBoost,
                 transcriberSet |-> o.transcriberSet,
                 rawQuery |-> IF pc = "idle" THEN queryFromOptions(o, o.handlers)
                              ELSE <<>>]
    /\ request = NoRequest
    /\ cpc = pc
    /\ conn = "nil"
    /\ sessionOpen = FALSE
    /\ done = "nil"
    /\ ctx = "live"
    /\ peer = "up"
    /\ inbox = <<>>
    /\ wire = <<>>
    /\ cb = <<>>
    /\ rxn = 0
    /\ dmsg = NoMsg
    /\ hmsg = NoMsg
    /\ cop = NoCall
    /\ ret = NoReturn
    /\ dpc = "none"
    /\ spawned = 0
    /\ doneFired = FALSE
    /\ srvSent = 0
    /\ replied = FALSE
    /\ calls = 0

\* a client constructed with an API key and a transcriber
InitWith(handlers) == Fresh(Options(handlers), "idle")

Init == \E handlers \in {{}, Callbacks} : InitWith(handlers)

envVars == <<ctx, peer, inbox, srvSent, replied>>

dispVars == <<dpc, rxn, dmsg, doneFired>>

\* variant: a registered callback is invoked twice
Invoke_Twice(name, text, msg) ==
    IF name \in transcriber
    THEN cb' = cb \o << [name |-> name, text |-> text, msg |-> msg],
                        [name |-> name, text |-> text, msg |-> msg] >>
    ELSE cb' = cb

\* variant: a registered callback is never invoked
Invoke_Never(name, text, msg) == cb' = cb

\* variant: the latest callback is recorded ahead of the earlier ones
Invoke_Prepend(name, text, msg) ==
    IF name \in transcriber
    THEN cb' = << [name |-> name, text |-> text, msg |-> msg] >> \o cb
    ELSE cb' = cb

Invoke(name, text, msg) ==
    IF name \in transcriber
    THEN cb' = Append(cb, [name |-> name, text |-> text, msg |-> msg])
    ELSE cb' = cb

----------------------------------------------------------------------------
(* Connect. *)

IssueConnect ==
    /\ cpc = "idle"
    /\ conn = "nil"
    /\ calls' = calls + 1
    /\ cop' = Call("Connect", FALSE, "", 0)
    /\ cpc' = "Connect_dial"
    /\ ret' = NoReturn
    /\ UNCHANGED <<config, request, transcriber, conn, sessionOpen, done, wire, cb, hmsg, spawned>>
    /\ UNCHANGED envVars /\ UNCHANGED dispVars

CallConnect == calls < MaxCalls /\ IssueConnect

\* websocket.Dial; on success c.conn = conn
ConnectDial ==
    /\ cpc = "Connect_dial"
    /\ request' = DialRequest
    /\ \E ok \in DialResults :
         IF ok
         THEN /\ conn' = "open"
              /\ cpc' = "Connect_read"
              /\ UNCHANGED <<cop, ret>>
         ELSE /\ Return("errDial")
              /\ UNCHANGED conn
    /\ UNCHANGED <<config, transcriber, sessionOpen, done, wire, cb, hmsg, spawned, calls>>
    /\ UNCHANGED envVars /\ UNCHANGED dispVars

\* mutant: SessionBegins is decoded before the error envelope is looked at
HandshakeResult_BeginsFirst(m) ==
    IF UnmarshalSessionBegins(m) THEN "nil"
    ELSE IF ~UnmarshalRealTimeError(m) THEN "errDecode"
    ELSE IF m.err # "" THEN "errHandshake"
    ELSE "errDecode"

\* mutant: the error of the SessionBegins decode is dropped
HandshakeResult_IgnoreBeginsError(m) ==
    IF ~UnmarshalRealTimeError(m) THEN "errDecode"
    ELSE IF m.err # "" THEN "errHandshake"
    ELSE "nil"

\* the outcome of decoding the handshake message: the error envelope first,
\* then SessionBegins
HandshakeResult(m) ==
    IF ~UnmarshalRealTimeError(m) THEN "errDecode"
    ELSE IF m.err # "" THEN "errHandshake"
    ELSE IF ~UnmarshalSessionBegins(m) THEN "errDecode"
    ELSE "nil"

\* wsjson.Read of the first message, the two decodes and c.setSessionOpen(true)
ConnectHandshake ==
    /\ cpc = "Connect_read"
    /\ \E r \in ReadResults :
         IF r = "message"
         THEN /\ hmsg' = Head(inbox)
              /\ inbox' = Tail(inbox)
              /\ IF HandshakeResult(Head(inbox)) = "nil"
                 THEN /\ setSessionOpen(TRUE)
                      /\ cpc' = "Connect_begins"
                      /\ UNCHANGED <<cop, ret>>
                 ELSE /\ Return(HandshakeResult(Head(inbox)))
                      /\ UNCHANGED sessionOpen
              /\ UNCHANGED conn
         ELSE /\ Return("errRead")
              /\ conn' = "closed"
              /\ UNCHANGED <<hmsg, inbox, sessionOpen>>
    /\ UNCHANGED <<config, request, transcriber, done, wire, cb, spawned, calls>>
    /\ UNCHANGED <<ctx, peer, srvSent, replied>> /\ UNCHANGED dispVars

\* c.transcriber.OnSessionBegins(session), when registered
ConnectBegins ==
    /\ cpc = "Connect_begins"
    /\ Invoke("OnSessionBegins", "", 0)
    /\ cpc' = "Connect_spawn"
    /\ UNCHANGED <<config, request, transcriber, conn, sessionOpen, done, wire, hmsg, cop, ret,
                   spawned, calls>>
    /\ UNCHANGED envVars /\ UNCHANGED dispVars

\* c.done = make(chan bool); go func() {...}(); return nil
ConnectSpawn ==
    /\ cpc = "Connect_spawn"
    /\ done' = "made"
    /\ dpc' = "check"
    /\ spawned' = spawned + 1
    /\ Return("nil")
    /\ UNCHANGED <<config, request, transcriber, conn, sessionOpen, wire, cb, hmsg, calls>>
    /\ UNCHANGED envVars /\ UNCHANGED <<rxn, dmsg, doneFired>>

Connect == CallConnect \/ ConnectDial \/ ConnectHandshake \/ ConnectBegins \/ ConnectSpawn

----------------------------------------------------------------------------
(* Send. *)

IssueSend ==
    /\ cpc = "idle"
    /\ calls' = calls + 1
    /\ \E b \in Samples : cop' = Call("Send", FALSE, b, 0)
    /\ cpc' = "Send_check"
    /\ ret' = NoReturn
    /\ UNCHANGED <<config, request, transcriber, conn, sessionOpen, done, wire, cb, hmsg, spawned>>
    /\ UNCHANGED envVars /\ UNCHANGED dispVars

CallSend == calls < MaxCalls /\ IssueSend

\* mutant: Send checks the connection only
SendRefuses_NoOpenCheck == conn = "nil"

\* mutant: Send never refuses
SendRefuses_Never == FALSE

\* the condition under which Send refuses to write
SendRefuses == conn = "nil" \/ ~isSessionOpen

\* if c.conn == nil || !c.isSessionOpen() { return ErrSessionClosed }
SendCheck ==
    /\ cpc = "Send_check"
    /\ IF SendRefuses
       THEN Return(ErrSessionClosed)
       ELSE cpc' = "Send_write" /\ UNCHANGED <<cop, ret>>
    /\ UNCHANGED <<config, request, transcriber, conn, sessionOpen, done, wire, cb, hmsg, spawned,
                   calls>>
    /\ UNCHANGED envVars /\ UNCHANGED dispVars

\* return c.conn.Write(ctx, websocket.MessageBinary, samples)
SendWrite ==
    /\ cpc = "Send_write"
    /\ \E ok \in WriteResults :
         IF ok
         THEN /\ wire' = Append(wire, Frame("binary", "", cop.samples))
              /\ ret' = [op |-> [cop EXCEPT !.writes = 1], val |-> "nil"]
              /\ UNCHANGED conn
         ELSE /\ wire' = wire
              /\ ret' = [op |-> cop, val |-> "errWrite"]
              /\ conn' = "closed"
    /\ cop' = NoCall
    /\ cpc' = "idle"
    /\ UNCHANGED <<config, request, transcriber, sessionOpen, done, cb, hmsg, spawned, calls>>
    /\ UNCHANGED envVars /\ UNCHANGED dispVars

Send == CallSend \/ SendCheck \/ SendWrite

----------------------------------------------------------------------------
(* ForceEndUtterance and SetEndUtteranceSilenceThreshold. *)

\* wsjson.Write(ctx, c.conn, v) as a whole call: a nil connection is
\* dereferenced and the goroutine panics
\* variant: the control calls refuse, as Send does, while the session is closed
WriteJSON_Guarded(field, value) ==
    IF conn = "nil"
    THEN /\ cpc' = "panic"
         /\ UNCHANGED <<wire, cop, ret, conn>>
    ELSE IF ~isSessionOpen
    THEN /\ Return(ErrSessionClosed)
         /\ UNCHANGED <<wire, conn>>
    ELSE \E ok \in WriteResults :
           IF ok
           THEN /\ wire' = Append(wire, Frame("text", field, value))
                /\ ret' = [op |-> [cop EXCEPT !.writes = 1], val |-> "nil"]
                /\ cop' = NoCall
                /\ cpc' = "idle"
                /\ UNCHANGED conn
           ELSE /\ wire' = wire
                /\ Return("errWrite")
                /\ conn' = "closed"

WriteJSON(field, value) ==
    IF conn = "nil"
    THEN /\ cpc' = "panic"
         /\ UNCHANGED <<wire, cop, ret, conn>>
    ELSE \E ok \in WriteResults :
           IF ok
           THEN /\ wire' = Append(wire, Frame("text", field, value))
                /\ ret' = [op |-> [cop EXCEPT !.writes = 1], val |-> "nil"]
                /\ cop' = NoCall
                /\ cpc' = "idle"
                /\ UNCHANGED conn
           ELSE /\ wire' = wire
                /\ Return("errWrite")
                /\ conn' = "closed"

CallControl ==
    /\ cpc = "idle"
    /\ calls < MaxCalls
    /\ calls' = calls + 1
    /\ \/ cop' = Call("ForceEndUtterance", FALSE, "", 0)
       \/ \E n \in Thresholds :
            cop' = Call("SetEndUtteranceSilenceThreshold", FALSE, "", n)
    /\ cpc' = "Control_write"
    /\ ret' = NoReturn
    /\ UNCHANGED <<config, request, transcriber, conn, sessionOpen, done, wire, cb, hmsg, spawned>>
    /\ UNCHANGED envVars /\ UNCHANGED dispVars

ForceEndUtterance ==
    /\ cpc = "Control_write" /\ cop.name = "ForceEndUtterance"
    /\ WriteJSON("force_end_utterance", "true")
    /\ UNCHANGED <<config, request, transcriber, sessionOpen, done, cb, hmsg, spawned, calls>>
    /\ UNCHANGED envVars /\ UNCHANGED dispVars

SetEndUtteranceSilenceThreshold ==
    /\ cpc = "Control_write" /\ cop.name = "SetEndUtteranceSilenceThreshold"
    /\ WriteJSON("end_utterance_silence_threshold", ToString(cop.threshold))
    /\ UNCHANGED <<config, request, transcriber, sessionOpen, done, cb, hmsg, spawned, calls>>
    /\ UNCHANGED envVars /\ UNCHANGED dispVars

----------------------------------------------------------------------------
(* Disconnect. *)

IssueDisconnect(w) ==
    /\ cpc = "idle"
    /\ calls' = calls + 1
    /\ cop' = Call("Disconnect", w, "", 0)
    /\ cpc' = "Disconnect_write"
    /\ ret' = NoReturn
    /\ UNCHANGED <<config, request, transcriber, conn, sessionOpen, done, wire, cb, hmsg, spawned>>
    /\ UNCHANGED envVars /\ UNCHANGED dispVars

CallDisconnect == calls < MaxCalls /\ \E w \in BOOLEAN : IssueDisconnect(w)

\* mutant: Disconnect closes without waiting
AfterTerminateWrite_NoWait(waitForSessionTermination) == "Disconnect_close"

\* mutant: Disconnect waits exactly when it was told not to
AfterTerminateWrite_Inverted(waitForSessionTermination) ==
    IF waitForSessionTermination THEN "Disconnect_close" ELSE "Disconnect_wait"

\* if waitForSessionTermination { <-c.done }
AfterTerminateWrite(waitForSessionTermination) ==
    IF waitForSessionTermination THEN "Disconnect_wait" ELSE "Disconnect_close"

\* wsjson.Write(ctx, c.conn, terminate); an error is returned at once
DisconnectWrite ==
    /\ cpc = "Disconnect_write"
    /\ IF conn = "nil"
       THEN /\ cpc' = "panic"
            /\ UNCHANGED <<wire, cop, ret, conn>>
       ELSE \E ok \in WriteResults :
              IF ok
              THEN /\ wire' = Append(wire, Frame("text", "terminate_session", "true"))
                   /\ cop' = [cop EXCEPT !.writes = 1]
                   /\ cpc' = AfterTerminateWrite(cop.wait)
                   /\ UNCHANGED <<ret, conn>>
              ELSE /\ wire' = wire
                   /\ Return("errWrite")
                   /\ conn' = "closed"
    /\ UNCHANGED <<config, request, transcriber, sessionOpen, done, cb, hmsg, spawned, calls>>
    /\ UNCHANGED envVars /\ UNCHANGED dispVars

\* return c.conn.Close(websocket.StatusNormalClosure, "")
\* variant: Disconnect marks the session closed when it closes the connection
DisconnectClose_ClosesSession ==
    /\ cpc = "Disconnect_close"
    /\ conn' = "closed"
    /\ sessionOpen' = FALSE
    /\ Return(CloseResult)
    /\ UNCHANGED <<config, request, transcriber, done, wire, cb, hmsg, spawned, calls>>
    /\ UNCHANGED envVars /\ UNCHANGED dispVars

\* variant: Disconnect returns without closing the connection
DisconnectClose_NoClose ==
    /\ cpc = "Disconnect_close"
    /\ Return("nil")
    /\ UNCHANGED <<config, request, transcriber, conn, sessionOpen, done, wire, cb, hmsg, spawned,
                   calls>>
    /\ UNCHANGED envVars /\ UNCHANGED dispVars

DisconnectClose ==
    /\ cpc = "Disconnect_close"
    /\ conn' = "closed"
    /\ Return(CloseResult)
    /\ UNCHANGED <<config, request, transcriber, sessionOpen, done, wire, cb, hmsg, spawned, calls>>
    /\ UNCHANGED envVars /\ UNCHANGED dispVars

----------------------------------------------------------------------------
(* The dispatcher goroutine. *)

\* if !c.isSessionOpen() { return }
DispatchCheck ==
    /\ dpc = "check"
    /\ dpc' = IF isSessionOpen THEN "read" ELSE "exited"
    /\ UNCHANGED <<config, request, transcriber, conn, sessionOpen, done, wire, cb, hmsg, cpc, cop,
                   ret, spawned, calls, rxn, dmsg, doneFired>>
    /\ UNCHANGED envVars

\* wsjson.Read fails: the error callback, then return
DispatchReadError ==
    /\ dpc = "read"
    /\ "error" \in ReadResults
    /\ Invoke("OnError", "read", rxn)
    /\ conn' = "closed"
    /\ dpc' = "exited"
    /\ UNCHANGED <<config, request, transcriber, sessionOpen, done, wire, hmsg, cpc, cop, ret,
                   spawned, calls, rxn, dmsg, doneFired>>
    /\ UNCHANGED envVars

\* where the loop goes after a failed decode of the discriminator
AfterBadMessageType == "exited"

\* mutant: transcripts are delivered whatever their text
HasText_Always(text) == TRUE

\* mutant: no transcript is delivered
HasText_Never(text) == FALSE

\* transcript.Text != ""
HasText(text) == text # ""

\* what the dispatcher does with message m, numbered n: the callback it
\* invokes (none when the name is not registered) and where it goes next
Dispatch(m, n) ==
    IF ~UnmarshalMessageType(m)
    THEN /\ Invoke("OnError", "decode", n)
         /\ dpc' = AfterBadMessageType
         /\ UNCHANGED sessionOpen
    ELSE IF m.mt = MessageTypeFinalTranscript
    THEN /\ IF ~UnmarshalTranscript(m) THEN Invoke("OnError", "decode", n)
            ELSE IF HasText(m.text) THEN Invoke("OnFinalTranscript", m.text, n)
            ELSE cb' = cb
         /\ dpc' = "check"
         /\ UNCHANGED sessionOpen
    ELSE IF m.mt = MessageTypePartialTranscript
    THEN /\ IF ~UnmarshalTranscript(m) THEN Invoke("OnError", "decode", n)
            ELSE IF HasText(m.text) THEN Invoke("OnPartialTranscript", m.text, n)
            ELSE cb' = cb
         /\ dpc' = "check"
         /\ UNCHANGED sessionOpen
    ELSE IF m.mt = MessageTypeSessionTerminated
    THEN IF ~UnmarshalSessionTerminated(m)
         THEN /\ Invoke("OnError", "decode", n)
              /\ dpc' = "check"
              /\ UNCHANGED sessionOpen
         ELSE /\ setSessionOpen(FALSE)
              /\ dpc' = "terminated"
              /\ cb' = cb
    ELSE IF m.mt = MessageTypeSessionInformation
    THEN /\ IF ~UnmarshalSessionInformation(m) THEN Invoke("OnError", "decode", n)
            ELSE Invoke("OnSessionInformation", "", n)
         /\ dpc' = "check"
         /\ UNCHANGED sessionOpen
    ELSE /\ cb' = cb
         /\ dpc' = "check"
         /\ UNCHANGED sessionOpen

\* wsjson.Read returns a message; decode and dispatch it
DispatchMessage ==
    /\ dpc = "read"
    /\ "message" \in ReadResults
    /\ rxn' = rxn + 1
    /\ dmsg' = Head(inbox)
    /\ inbox' = Tail(inbox)
    /\ Dispatch(Head(inbox), rxn + 1)
    /\ UNCHANGED <<config, request, transcriber, conn, done, wire, hmsg, cpc, cop, ret, spawned,
                   calls, doneFired>>
    /\ UNCHANGED <<ctx, peer, srvSent, replied>>

\* c.transcriber.OnSessionTerminated(session), when registered
DispatchTerminated ==
    /\ dpc = "terminated"
    /\ Invoke("OnSessionTerminated", "", rxn)
    /\ dpc' = "signal"
    /\ UNCHANGED <<config, request, transcriber, conn, sessionOpen, done, wire, hmsg, cpc, cop, ret,
                   spawned, calls, rxn, dmsg, doneFired>>
    /\ UNCHANGED envVars

\* c.done <- true meets <-c.done: the channel is unbuffered, so the dispatcher's
\* send and Disconnect's receive complete together
\* variant: the receive in Disconnect completes without the dispatcher's send
Signal_NoRendezvous ==
    /\ cpc = "Disconnect_wait"
    /\ done = "made"
    /\ cpc' = "Disconnect_close"
    /\ UNCHANGED <<config, request, transcriber, conn, sessionOpen, done, wire, cb, hmsg, cop, ret,
                   spawned, calls>>
    /\ UNCHANGED envVars /\ UNCHANGED dispVars

Signal ==
    /\ dpc = "signal"
    /\ cpc = "Disconnect_wait"
    /\ done = "made"
    /\ doneFired' = TRUE
    /\ dpc' = "check"
    /\ cpc' = "Disconnect_close"
    /\ UNCHANGED <<config, request, transcriber, conn, sessionOpen, done, wire, cb, hmsg, cop, ret,
                   spawned, calls, rxn, dmsg>>
    /\ UNCHANGED envVars

Dispatcher ==
    DispatchCheck \/ DispatchReadError \/ DispatchMessage \/ DispatchTerminated
        \/ Signal

----------------------------------------------------------------------------
(* The environment. *)

\* the server sends a message: the handshake message first, then session
\* messages.  The client sees the server only through its reads, and these
\* return the messages in the order sent, so a message is put in flight when
\* the one before it has been read.
ServerSend ==
    /\ conn # "nil" /\ peer = "up"
    /\ IF hmsg = NoMsg /\ cpc = "Connect_read"
       THEN /\ inbox = <<>>
            /\ \E m \in HandshakeMsgs : inbox' = Append(inbox, m)
            /\ UNCHANGED srvSent
       ELSE /\ cpc # "Connect_read"
            /\ srvSent < MaxServerMsgs
            /\ inbox = <<>>
            /\ \E m \in SessionMsgs : inbox' = Append(inbox, m)
            /\ srvSent' = srvSent + 1
    /\ UNCHANGED <<config, request, transcriber, conn, sessionOpen, done, wire, cb, hmsg, cpc, cop,
                   ret, spawned, calls, ctx, peer, replied>>
    /\ UNCHANGED dispVars

\* the server closes the socket without a closing handshake
ServerClose ==
    /\ conn # "nil" /\ peer = "up"
    /\ peer' = "closed"
    /\ UNCHANGED <<config, request, transcriber, conn, sessionOpen, done, wire, cb, hmsg, cpc, cop,
                   ret, spawned, calls, ctx, inbox, srvSent, replied>>
    /\ UNCHANGED dispVars

\* the context is cancelled or its deadline elapses
CtxCancel ==
    /\ ctx = "live"
    /\ calls > 0
    /\ ctx' = "cancelled"
    /\ UNCHANGED <<config, request, transcriber, conn, sessionOpen, done, wire, cb, hmsg, cpc, cop,
                   ret, spawned, calls, peer, inbox, srvSent, replied>>
    /\ UNCHANGED dispVars

\* the server answers terminate_session with SessionTerminated
ServerReply ==
    /\ ~replied
    /\ peer = "up"
    /\ \E i \in 1..Len(wire) : wire[i].field = "terminate_session"
    /\ inbox' = Append(inbox, Msg(MessageTypeSessionTerminated, Absent, Absent, "ok", TRUE))
    /\ replied' = TRUE
    /\ UNCHANGED <<config, request, transcriber, conn, sessionOpen, done, wire, cb, hmsg, cpc, cop,
                   ret, spawned, calls, ctx, peer, srvSent>>
    /\ UNCHANGED dispVars

Next ==
    \/ Connect
    \/ Send
    \/ CallControl \/ ForceEndUtterance \/ SetEndUtteranceSilenceThreshold
    \/ CallDisconnect \/ DisconnectWrite \/ DisconnectClose
    \/ Dispatcher
    \/ ServerSend \/ ServerReply \/ ServerClose \/ CtxCancel

Spec == Init /\ [][Next]_vars

\* the steps of a call once it is issued: the caller's goroutine runs
CallerSteps ==
    \/ ConnectDial \/ ConnectHandshake \/ ConnectBegins \/ ConnectSpawn
    \/ SendCheck \/ SendWrite
    \/ ForceEndUtterance \/ SetEndUtteranceSilenceThreshold
    \/ DisconnectWrite \/ DisconnectClose

\* The Go scheduler runs every goroutine that can run, and the server answers
\* terminate_session while its end of the socket is up.  Nothing obliges the
\* caller to issue a call, the server to send on its own or to close, or the
\* context to end.
FairSpec ==
    /\ Spec
    /\ WF_vars(CallerSteps)
    /\ WF_vars(Dispatcher)
    /\ WF_vars(ServerReply)

----------------------------------------------------------------------------
(* The end-to-end run of TestRealTime_Handler: partial, final and error      *)
(* callbacks registered; Connect, audio frames, Disconnect(ctx, true); the  *)
(* server begins the session, emits a partial and a final transcript once  *)
(* audio has arrived, and answers terminate_session.  The context stays    *)
(* live and the socket up.                                                 *)

\* audio frames the caller sends in the end-to-end run
MaxFrames == 2

E2EScript ==
    << Msg(MessageTypePartialTranscript, "foo", Absent, "ok", TRUE),
       Msg(MessageTypeFinalTranscript, "Foo.", Absent, "ok", TRUE) >>

E2EInit == InitWith({"OnPartialTranscript", "OnFinalTranscript", "OnError"})

E2ECallConnect == calls = 0 /\ IssueConnect

E2ECallSend ==
    /\ calls \in 1..MaxFrames
    /\ ret.op.name \in {"Connect", "Send"} /\ ret.val = "nil"
    /\ IssueSend

E2ECallDisconnect ==
    /\ calls \in 2..(MaxFrames + 1)
    /\ ret.op.name = "Send" /\ ret.val = "nil"
    /\ IssueDisconnect(TRUE)

E2EServerBegins ==
    /\ ServerSend
    /\ inbox' = <<Msg(MessageTypeSessionBegins, Absent, Absent, "ok", TRUE)>>

E2EServerEmit ==
    /\ srvSent < Len(E2EScript)
    /\ \E i \in 1..Len(wire) : wire[i].kind = "binary"
    /\ inbox' = Append(inbox, E2EScript[srvSent + 1])
    /\ srvSent' = srvSent + 1
    /\ UNCHANGED <<config, request, transcriber, conn, sessionOpen, done, wire, cb, hmsg, cpc, cop,
                   ret, spawned, calls, ctx, peer, replied>>
    /\ UNCHANGED dispVars

E2EServerReply == srvSent = Len(E2EScript) /\ ServerReply

E2ENext ==
    \/ E2ECallConnect \/ E2ECallSend \/ E2ECallDisconnect
    \/ ConnectDial \/ ConnectHandshake \/ ConnectBegins \/ ConnectSpawn
    \/ SendCheck \/ SendWrite
    \/ DisconnectWrite \/ DisconnectClose
    \/ DispatchCheck \/ DispatchMessage \/ DispatchTerminated \/ Signal
    \/ E2EServerBegins \/ E2EServerEmit \/ E2EServerReply

\* every party of the run takes its next step: the run is carried through
SpecE2E == E2EInit /\ [][E2ENext]_vars /\ WF_vars(E2ENext)

----------------------------------------------------------------------------
(* The lock of the session flag.  Here isSessionOpen and setSessionOpen    *)
(* take two steps where two goroutines can meet: the lock is taken, then   *)
(* the flag is accessed and the lock released.  Connect's                  *)
(* setSessionOpen(true) stays one step: the dispatcher does not exist yet. *)

\* c.mtx.RLock() in isSessionOpen
isSessionOpenLock == "RLock"

\* c.mtx.RLock() in setSessionOpen
setSessionOpenLock == "RLock"

\* the goroutines inside a critical section of c.mtx
Holding ==
    (IF cpc = "Send_locked"
     THEN {[g |-> "caller", f |-> "isSessionOpen", lock |-> isSessionOpenLock]}
     ELSE {})
    \cup (IF dpc = "check_locked"
          THEN {[g |-> "dispatcher", f |-> "isSessionOpen", lock |-> isSessionOpenLock]}
          ELSE {})
    \cup (IF dpc = "set_locked"
          THEN {[g |-> "dispatcher", f |-> "setSessionOpen", lock |-> setSessionOpenLock]}
          ELSE {})

\* sync.RWMutex: RLock is granted while only readers hold the lock, Lock when
\* nobody holds it
Granted(lock) ==
    IF lock = "RLock" THEN \A h \in Holding : h.lock = "RLock" ELSE Holding = {}

\* Send: c.conn == nil || !c.isSessionOpen(), up to c.mtx.RLock()
MtxSendLock ==
    /\ cpc = "Send_check"
    /\ IF conn = "nil"
       THEN Return(ErrSessionClosed)
       ELSE /\ Granted(isSessionOpenLock)
            /\ cpc' = "Send_locked"
            /\ UNCHANGED <<cop, ret>>
    /\ UNCHANGED <<config, request, transcriber, conn, sessionOpen, done, wire, cb,
                   hmsg, spawned, calls>>
    /\ UNCHANGED envVars /\ UNCHANGED dispVars

\* Send: return c.sessionOpen, c.mtx.RUnlock(), and the test of the result
MtxSendRead ==
    /\ cpc = "Send_locked"
    /\ IF ~isSessionOpen
       THEN Return(ErrSessionClosed)
       ELSE cpc' = "Send_write" /\ UNCHANGED <<cop, ret>>
    /\ UNCHANGED <<config, request, transcriber, conn, sessionOpen, done, wire, cb,
                   hmsg, spawned, calls>>
    /\ UNCHANGED envVars /\ UNCHANGED dispVars

\* dispatcher: c.isSessionOpen(), up to c.mtx.RLock()
MtxDispatchLock ==
    /\ dpc = "check"
    /\ Granted(isSessionOpenLock)
    /\ dpc' = "check_locked"
    /\ UNCHANGED <<config, request, transcriber, conn, sessionOpen, done, wire, cb,
                   hmsg, cpc, cop, ret, spawned, calls, rxn, dmsg, doneFired>>
    /\ UNCHANGED envVars

\* dispatcher: return c.sessionOpen, c.mtx.RUnlock(), and the test of the result
MtxDispatchRead ==
    /\ dpc = "check_locked"
    /\ dpc' = IF isSessionOpen THEN "read" ELSE "exited"
    /\ UNCHANGED <<config, request, transcriber, conn, sessionOpen, done, wire, cb,
                   hmsg, cpc, cop, ret, spawned, calls, rxn, dmsg, doneFired>>
    /\ UNCHANGED envVars

\* dispatcher: a message is read and dispatched; for SessionTerminated,
\* c.setSessionOpen(false) up to c.mtx.RLock()
MtxDispatchMessage ==
    IF /\ dpc = "read" /\ CanRead
       /\ UnmarshalMessageType(Head(inbox))
       /\ Head(inbox).mt = MessageTypeSessionTerminated
       /\ UnmarshalSessionTerminated(Head(inbox))
    THEN /\ Granted(setSessionOpenLock)
         /\ rxn' = rxn + 1
         /\ dmsg' = Head(inbox)
         /\ inbox' = Tail(inbox)
         /\ dpc' = "set_locked"
         /\ UNCHANGED <<config, request, transcriber, conn, sessionOpen, done, wire,
                        cb, hmsg, cpc, cop, ret, spawned, calls, doneFired>>
         /\ UNCHANGED <<ctx, peer, srvSent, replied>>
    ELSE DispatchMessage

\* dispatcher: c.sessionOpen = open, c.mtx.RUnlock()
MtxDispatchWrite ==
    /\ dpc = "set_locked"
    /\ setSessionOpen(FALSE)
    /\ dpc' = "terminated"
    /\ UNCHANGED <<config, request, transcriber, conn, done, wire, cb, hmsg, cpc, cop,
                   ret, spawned, calls, rxn, dmsg, doneFired>>
    /\ UNCHANGED envVars

MtxNext ==
    \/ CallConnect \/ ConnectDial \/ ConnectHandshake \/ ConnectBegins \/ ConnectSpawn
    \/ CallSend \/ MtxSendLock \/ MtxSendRead \/ SendWrite
    \/ MtxDispatchLock \/ MtxDispatchRead \/ MtxDispatchMessage \/ MtxDispatchWrite
    \/ DispatchTerminated
    \/ ServerSend

SpecMtx == Init /\ [][MtxNext]_vars

----------------------------------------------------------------------------
(* Construction and dial: NewRealTimeClientWithOptions applied to options  *)
(* drawn from the sets below, then Connect up to websocket.Dial.  The      *)
(* server sees the request of the dial.                                    *)

ApiKeys == {<<>>, <<"api-key">>}

Tokens == {<<>>, <<"temp-token">>, <<"tok", "=", "&", "x">>}

SampleRates == {-1, 0, 8000, 16000}

Encodings == {<<>>, RealTimeEncodingPCMS16LE, RealTimeEncodingPCMMulaw}

WordBoosts == {<<>>, <<"foo">>, <<"foo", "bar">>}

\* WithRealTimeTranscriber with some callbacks set, WithHandler, or neither
TranscriberOptions ==
    {[transcriberSet |-> "WithRealTimeTranscriber", handlers |-> h] :
        h \in {{}, {"OnPartialTranscript"}, {"OnSessionInformation"}, Callbacks}}
    \cup {[transcriberSet |-> "WithHandler", handlers |-> HandlerCallbacks]}
    \cup {[transcriberSet |-> "none", handlers |-> {}]}

QueryOptions ==
    {[apiKey |-> k, token |-> t, sampleRate |-> r, encoding |-> e, wordBoost |-> w,
      transcriberSet |-> o.transcriberSet, handlers |-> o.handlers] :
        k \in ApiKeys, t \in Tokens, r \in SampleRates, e \in Encodings,
        w \in WordBoosts, o \in TranscriberOptions}

\* the options have been applied; queryFromOptions is about to run
QueryInit == \E o \in QueryOptions : Fresh(o, "New")

\* client.baseURL.RawQuery = client.queryFromOptions(); c.transcriber is
\* dereferenced there, and is nil when no option set it
NewRealTimeClientWithOptions ==
    /\ cpc = "New"
    /\ IF config.transcriberSet = "none"
       THEN /\ cpc' = "panic"
            /\ UNCHANGED config
       ELSE /\ config' = [config EXCEPT !.rawQuery = queryFromOptions(config, transcriber)]
            /\ cpc' = "idle"
    /\ UNCHANGED <<request, transcriber, conn, sessionOpen, done, wire, cb, hmsg, cop,
                   ret, spawned, calls>>
    /\ UNCHANGED envVars /\ UNCHANGED dispVars

QueryCallConnect == calls = 0 /\ IssueConnect

QueryNext == NewRealTimeClientWithOptions \/ QueryCallConnect \/ ConnectDial

SpecQuery == QueryInit /\ [][QueryNext]_vars

----------------------------------------------------------------------------
(* The handshake alone: one Connect against a server whose first message   *)
(* is any of HandshakeMsgs or OtherFirstMsgs, up to the dispatcher's first *)
(* test of the flag.                                                       *)

HandshakeCallConnect == calls = 0 /\ IssueConnect

HandshakeServerSend ==
    /\ conn # "nil" /\ peer = "up"
    /\ hmsg = NoMsg /\ cpc = "Connect_read"
    /\ inbox = <<>>
    /\ \E m \in HandshakeMsgs \cup OtherFirstMsgs : inbox' = <<m>>
    /\ UNCHANGED <<config, request, transcriber, conn, sessionOpen, done, wire, cb, hmsg, cpc, cop,
                   ret, spawned, calls, ctx, peer, srvSent, replied>>
    /\ UNCHANGED dispVars

HandshakeNext ==
    \/ HandshakeCallConnect
    \/ ConnectDial \/ ConnectHandshake \/ ConnectBegins \/ ConnectSpawn
    \/ DispatchCheck
    \/ HandshakeServerSend \/ ServerClose \/ CtxCancel

SpecHandshake == Init /\ [][HandshakeNext]_vars

----------------------------------------------------------------------------
(* Properties. *)

\* C1: a Send issued after the dispatcher dispatched SessionTerminated never
\* reaches its transport write and returns ErrSessionClosed, having written
\* nothing.
C1_SendAfterTerminatedRefused ==
    /\ cpc = "Send_write" => ~cop.closedAtIssue
    /\ (ret.op.name = "Send" /\ ret.op.closedAtIssue)
          => (ret.val = ErrSessionClosed /\ ret.op.writes = 0)

\* C1 witness: a Send issued after SessionTerminated has returned
C1_Witness ==
    /\ ret.op.name = "Send" /\ ret.op.closedAtIssue
    /\ ret.val = ErrSessionClosed
    /\ rxn > 0 /\ dmsg.mt = MessageTypeSessionTerminated

\* C2: every binary audio frame on the transport was written in a state where
\* the session flag was open.
C2_NoAudioFrameWhileClosed ==
    \A i \in 1..Len(wire) : wire[i].kind = "binary" => wire[i].open

\* C3: no control message (terminate_session, force_end_utterance,
\* end_utterance_silence_threshold) on the transport was written after
\* SessionTerminated had been dispatched.
C3_NoControlMessageAfterTerminated ==
    \A i \in 1..Len(wire) : wire[i].kind = "text" => ~wire[i].terminated

\* C4: under FairSpec, a Disconnect(ctx, true) of an established session that
\* has written terminate_session eventually returns nil, the session-terminated
\* callback (when registered) having been invoked, unless the context ends or
\* the server closes the socket.
SessionTerminatedInvoked ==
    \E i \in 1..Len(cb) : cb[i].name = "OnSessionTerminated"

C4_GracefulShutdownCompletes ==
    [](  (cpc = "Disconnect_wait" /\ spawned = 1)
      => <>( \/ /\ ret.op.name = "Disconnect" /\ ret.val = "nil"
                /\ "OnSessionTerminated" \in transcriber => SessionTerminatedInvoked
             \/ ctx = "cancelled"
             \/ peer = "closed" ) )

\* C5, as claimed: a Disconnect(ctx, true) that has returned did so after the
\* termination signal fired or the context was done.
C5_ReturnsOnlyAfterSignalOrDeadline ==
    (ret.op.name = "Disconnect" /\ ret.op.wait) => (doneFired \/ ctx = "cancelled")

\* C5, amended: a Disconnect(ctx, true) whose terminate_session write succeeded
\* returns only after the termination signal fired or the context was done; one
\* whose write failed returns that error at once, without the signal.
C5_ReturnsOnlyAfterSignalUnlessWriteFailed ==
    /\ (ret.op.name = "Disconnect" /\ ret.op.wait /\ ret.op.writes = 1)
          => (doneFired \/ ctx = "cancelled")
    /\ (ret.op.name = "Disconnect" /\ ret.op.writes = 0) => ret.val = "errWrite"

\* C5 witness: a waiting Disconnect returned after the signal
C5_Witness ==
    /\ ret.op.name = "Disconnect" /\ ret.op.wait /\ ret.op.writes = 1
    /\ doneFired

\* C6: under FairSpec, a Disconnect(ctx, true) waiting for a signal that the
\* ended dispatcher will never fire returns a context error once the context
\* is done.
C6_DisconnectWaitCancellable ==
    [](  (cpc = "Disconnect_wait" /\ dpc = "exited" /\ ~doneFired /\ ctx = "cancelled")
      => <>(ret.op.name = "Disconnect" /\ ret.val = "errCtx") )

\* the texts the callback name was invoked with, in order
RECURSIVE TextsFrom(_, _)
TextsFrom(name, i) ==
    IF i > Len(cb) THEN <<>>
    ELSE IF cb[i].name = name THEN <<cb[i].text>> \o TextsFrom(name, i + 1)
    ELSE TextsFrom(name, i + 1)

\* the callbacks invoked by the dispatcher, in order
RECURSIVE NamesFrom(_)
NamesFrom(i) ==
    IF i > Len(cb) THEN <<>> ELSE <<cb[i].name>> \o NamesFrom(i + 1)

E2EDisconnected == ret.op.name = "Disconnect"

\* C7: in the end-to-end run, when Disconnect(ctx, true) has returned it
\* returned nil, the partial callback was invoked exactly once, with "foo", the
\* final callback exactly once, with "Foo.", the partial before the final, and
\* every Send returned nil; and the run gets there whenever the dial succeeds.
C7_EndToEnd ==
    /\ [](E2EDisconnected =>
            /\ ret.val = "nil"
            /\ TextsFrom("OnPartialTranscript", 1) = <<"foo">>
            /\ TextsFrom("OnFinalTranscript", 1) = <<"Foo.">>
            /\ NamesFrom(1) = <<"OnPartialTranscript", "OnFinalTranscript">>)
    /\ [](ret.op.name = "Send" => ret.val = "nil")
    /\ [](Len(TextsFrom("OnPartialTranscript", 1)) <= 1)
    /\ [](Len(TextsFrom("OnFinalTranscript", 1)) <= 1)
    /\ <>(E2EDisconnected \/ (ret.op.name = "Connect" /\ ret.val = "errDial"))

\* C7 witness: the run is over, both transcripts delivered
C7_Witness ==
    /\ E2EDisconnected /\ ret.val = "nil"
    /\ Len(cb) = 2 /\ Len(wire) = MaxFrames + 1

\* the callback a transcript message is delivered to
TranscriptCallback(m) ==
    IF m.mt = MessageTypeFinalTranscript THEN "OnFinalTranscript"
    ELSE "OnPartialTranscript"

\* the invocations of callback name made for message number n
Deliveries(name, n) ==
    {i \in 1..Len(cb) : cb[i].name = name /\ cb[i].msg = n}

IsTranscript(m) ==
    m.mt \in {MessageTypeFinalTranscript, MessageTypePartialTranscript}

\* C8, as claimed: a transcript message read by the dispatcher is never
\* delivered when its text is empty, and delivered exactly once, with its text,
\* when its text is non-empty and the callback is registered.
C8_TranscriptDelivery ==
    (rxn > 0 /\ IsTranscript(dmsg)) =>
        LET d == Deliveries(TranscriptCallback(dmsg), rxn) IN
        /\ dmsg.text = "" => d = {}
        /\ (dmsg.text \notin {"", BadType} /\ TranscriptCallback(dmsg) \in transcriber)
              => /\ Cardinality(d) = 1
                 /\ \A i \in d : cb[i].text = dmsg.text

\* a transcript message whose fields all have the declared JSON types
WellFormedTranscript(m) ==
    m.object /\ m.mt # BadType /\ m.text # BadType /\ m.rest = "ok"

\* C8, amended: a transcript message read by the dispatcher is never delivered
\* when its text is empty, and delivered exactly once, with its text, when its
\* text is non-empty, it decodes in full and the callback is registered.
C8_TranscriptDeliveryWhenDecoded ==
    (rxn > 0 /\ IsTranscript(dmsg)) =>
        LET d == Deliveries(TranscriptCallback(dmsg), rxn) IN
        /\ dmsg.text = "" => d = {}
        /\ (/\ dmsg.text \notin {"", BadType}
            /\ WellFormedTranscript(dmsg)
            /\ TranscriptCallback(dmsg) \in transcriber)
              => /\ Cardinality(d) = 1
                 /\ \A i \in d : cb[i].text = dmsg.text

\* C8 witness: a final transcript with text was delivered
C8_Witness ==
    /\ rxn > 0 /\ dmsg.mt = MessageTypeFinalTranscript /\ dmsg.text = "Foo."
    /\ Deliveries("OnFinalTranscript", rxn) # {}

\* C9: when the first message carries a non-empty error string, Connect does
\* not open the session, starts no dispatcher and returns an error, also when
\* the message decodes as SessionBegins.
C9_HandshakeErrorPrecedence ==
    (hmsg # NoMsg /\ hmsg.err \notin {"", BadType}) =>
        /\ ~sessionOpen
        /\ cpc \notin {"Connect_begins", "Connect_spawn"}
        /\ spawned = 0
        /\ ret.op.name = "Connect" => ret.val = "errHandshake"

\* C9 witness: Connect returned on a message that is both an error envelope
\* and a SessionBegins
C9_Witness ==
    /\ hmsg = Msg(MessageTypeSessionBegins, Absent, "boom", "ok", TRUE)
    /\ ret.op.name = "Connect" /\ ret.val = "errHandshake"

\* the first message is an error envelope or does not decode
BadHandshake(m) ==
    \/ ~m.object
    \/ m.err # ""
    \/ m.mt = BadType
    \/ m.rest # "ok"

SessionBeginsInvoked == \E i \in 1..Len(cb) : cb[i].name = "OnSessionBegins"

\* C10: a Connect that returned nil started exactly one dispatcher; a Connect
\* that failed (dial, handshake read, error envelope, undecodable message)
\* started none, left the session flag closed and did not invoke the
\* session-begins callback; no dispatcher exists but by a successful Connect.
C10_OneDispatcherPerSuccessfulConnect ==
    /\ (ret.op.name = "Connect" /\ ret.val = "nil") => (spawned = 1 /\ dpc # "none")
    /\ (ret.op.name = "Connect" /\ ret.val # "nil")
          => (spawned = 0 /\ dpc = "none" /\ ~sessionOpen /\ ~SessionBeginsInvoked)
    /\ (hmsg # NoMsg /\ BadHandshake(hmsg))
          => (spawned = 0 /\ dpc = "none" /\ ~sessionOpen /\ ~SessionBeginsInvoked)
    /\ spawned <= 1
    /\ spawned = 0 <=> dpc = "none"

\* C10 witness: a successful Connect has returned
C10_Witness ==
    /\ ret.op.name = "Connect" /\ ret.val = "nil"
    /\ spawned = 1

\* the constructor has returned a client
Constructed == cpc \notin {"New", "panic"}

\* the query as r.URL.Query() gives it to the server
DialedQuery == ParseQuery(request.query)

\* C16: the query of a constructed client, and the query the server gets at the
\* dial, has disable_partial_transcripts, with value true, exactly when no
\* partial-transcript callback is registered; a client configured through
\* WithHandler has a partial-transcript callback, so the parameter is absent.
C16_DisablePartialTranscripts ==
    /\ Constructed =>
          LET q == ParseQuery(config.rawQuery) IN
          /\ Has(q, "disable_partial_transcripts")
                <=> "OnPartialTranscript" \notin transcriber
          /\ Has(q, "disable_partial_transcripts")
                => Get(q, "disable_partial_transcripts") = <<"true">>
          /\ config.transcriberSet = "WithHandler"
                => ~Has(q, "disable_partial_transcripts")
    /\ request.dialed =>
          /\ request.query = config.rawQuery
          /\ Has(DialedQuery, "disable_partial_transcripts")
                <=> "OnPartialTranscript" \notin transcriber

\* C16 witness: a client without callbacks dialed with the parameter
C16_Witness ==
    /\ request.dialed /\ transcriber = {}
    /\ Get(DialedQuery, "disable_partial_transcripts") = <<"true">>

\* C17: in the dialed query token, encoding and word_boost are present exactly
\* when a non-empty value was configured, sample_rate exactly when a positive
\* rate was configured, enable_extra_session_information exactly when a
\* session-information callback is registered; each carries the configured
\* value, no parameter is empty and there is no other parameter.
C17_QueryCarriesConfiguredOptions ==
    request.dialed =>
        LET q == DialedQuery IN
        /\ Has(q, "token") <=> config.token # <<>>
        /\ Get(q, "token") = config.token
        /\ Has(q, "sample_rate") <=> config.sampleRate > 0
        /\ config.sampleRate = 8000 => Get(q, "sample_rate") = <<"8000">>
        /\ config.sampleRate = 16000 => Get(q, "sample_rate") = <<"16000">>
        /\ Has(q, "encoding") <=> config.encoding # <<>>
        /\ Get(q, "encoding") = config.encoding
        /\ Has(q, "word_boost") <=> config.wordBoost # <<>>
        /\ config.wordBoost = <<"foo", "bar">>
              => Get(q, "word_boost")
                   = <<"[", "\"", "foo", "\"", ",", "\"", "bar", "\"", "]">>
        /\ config.wordBoost = <<"foo">>
              => Get(q, "word_boost") = <<"[", "\"", "foo", "\"", "]">>
        /\ Has(q, "enable_extra_session_information")
              <=> "OnSessionInformation" \in transcriber
        /\ Has(q, "enable_extra_session_information")
              => Get(q, "enable_extra_session_information") = <<"true">>
        /\ \A p \in q : p[2] # <<>>
        /\ \A p \in q : \E i \in 1..Len(SortedKeys) : p[1] = SortedKeys[i]
        /\ Cardinality(q) = Cardinality({p[1] : p \in q})

\* C17 witness: the dial of the client of TestRealTime_Send, with a token that
\* has to be escaped
C17_Witness ==
    /\ request.dialed
    /\ config.wordBoost = <<"foo", "bar">>
    /\ config.encoding = RealTimeEncodingPCMMulaw
    /\ config.sampleRate = 8000
    /\ config.token = <<"tok", "=", "&", "x">>
    /\ Get(DialedQuery, "token") = <<"tok", "=", "&", "x">>

\* C18: the dial carries the API key in the Authorization header when only the
\* key is configured; with a token configured it carries the token in the query
\* and no Authorization header, also when a key is configured too.
C18_CredentialSelection ==
    request.dialed =>
        /\ (config.token = <<>> /\ config.apiKey # <<>>)
              => request.header = {<<"Authorization", config.apiKey>>}
        /\ config.token # <<>>
              => /\ Get(DialedQuery, "token") = config.token
                 /\ request.header = {}

\* C15: a goroutine inside the critical section of setSessionOpen is alone
\* inside a critical section of c.mtx.
C15_FlagWriteExclusive ==
    \A h \in Holding : h.f = "setSessionOpen" => Holding = {h}

\* the payloads of the binary frames of w, in order
RECURSIVE BinaryPayloads(_)
BinaryPayloads(w) ==
    IF w = <<>> THEN <<>>
    ELSE IF Head(w).kind = "binary" THEN <<Head(w).value>> \o BinaryPayloads(Tail(w))
    ELSE BinaryPayloads(Tail(w))

\* C11: while no Connect has succeeded (none called, dial failed or handshake
\* failed) Send never reaches its write, no binary frame is on the transport,
\* and a Send that returned returned ErrSessionClosed having written nothing.
C11_SendWithoutSessionRefused ==
    spawned = 0 =>
        /\ cpc # "Send_write"
        /\ BinaryPayloads(wire) = <<>>
        /\ ret.op.name = "Send" => (ret.val = ErrSessionClosed /\ ret.op.writes = 0)

\* C11 witness: Send returned after a Connect that dialed and failed at the
\* handshake
C11_Witness ==
    /\ spawned = 0 /\ conn # "nil" /\ hmsg # NoMsg
    /\ ret.op.name = "Send" /\ ret.val = ErrSessionClosed

\* C12: after a Connect whose dial failed, a Disconnect in progress has not
\* faulted, is not waiting and is not closing, and a Disconnect that returned
\* returned an error.
C12_DisconnectWithoutTransportReturnsError ==
    (request.dialed /\ conn = "nil") =>
        /\ cop.name = "Disconnect" => cpc = "Disconnect_write"
        /\ ret.op.name = "Disconnect" => ret.val \notin {"nil", "none"}

\* C13: a Disconnect whose terminate_session write succeeded returns from the
\* close of the transport, its last step; with waitForSessionTermination the
\* close comes after the dispatcher dispatched SessionTerminated and fired the
\* signal; a Disconnect whose write failed returns that error at once, without
\* reaching the close.
C13_DisconnectOrdering ==
    /\ []((ret.op.name = "Disconnect" /\ ret.op.writes = 1)
            => (conn = "closed" /\ ret.val \in {"nil", "errClose"}))
    /\ []((cpc = "Disconnect_close" /\ cop.wait)
            => (doneFired /\ ~sessionOpen /\ dmsg.mt = MessageTypeSessionTerminated))
    /\ []((ret.op.name = "Disconnect" /\ ret.op.wait /\ ret.op.writes = 1) => doneFired)
    /\ [][(cpc = "Disconnect_close" /\ cpc' # cpc)
            => (conn' = "closed" /\ cpc' = "idle" /\ ret'.op.name = "Disconnect")]_vars
    /\ [][(cpc = "Disconnect_write" /\ cpc' = "idle")
            => (ret'.val = "errWrite" /\ ret'.op.writes = 0 /\ wire' = wire)]_vars

\* C13 witness: a waiting Disconnect returned nil from the close
C13_Witness ==
    /\ ret.op.name = "Disconnect" /\ ret.op.wait /\ ret.val = "nil"
    /\ conn = "closed" /\ dmsg.mt = MessageTypeSessionTerminated

\* the dispatcher reported a failed read
ReadErrorObserved ==
    \E i \in 1..Len(cb) : cb[i].name = "OnError" /\ cb[i].text = "read"

\* C14: once the dispatcher has observed a read error the session flag is
\* closed, so that Send refuses.
C14_ReadErrorClosesSession ==
    ReadErrorObserved =>
        /\ ~sessionOpen
        /\ cpc = "Send_check" => SendRefuses

\* the message a call writes
OwnShape(f, op) ==
    CASE op.name = "Send" ->
            f.kind = "binary" /\ f.field = "" /\ f.value = op.samples
      [] op.name = "ForceEndUtterance" ->
            f.kind = "text" /\ f.field = "force_end_utterance" /\ f.value = "true"
      [] op.name = "SetEndUtteranceSilenceThreshold" ->
            /\ f.kind = "text" /\ f.field = "end_utterance_silence_threshold"
            /\ op.threshold = 350 => f.value = "350"
      [] op.name = "Disconnect" ->
            f.kind = "text" /\ f.field = "terminate_session" /\ f.value = "true"
      [] OTHER -> FALSE

OutboundCalls ==
    {"Send", "ForceEndUtterance", "SetEndUtteranceSilenceThreshold", "Disconnect"}

Occurrences(name) == Cardinality({i \in 1..Len(cb) : cb[i].name = name})

\* C21: the dispatcher handles SessionTerminated in the order flag closed,
\* session-terminated callback, signal, exit: the flag is closed before the
\* callback is invoked, the callback (when registered) has been invoked once
\* before the signal is fired, and after the signal the dispatcher only leaves
\* the loop, so the signal is fired at most once however many
\* SessionTerminated messages the server sends.
C21_SessionTerminatedOrder ==
    /\ dpc = "terminated" =>
          /\ ~sessionOpen /\ ~doneFired
          /\ dmsg.mt = MessageTypeSessionTerminated
          /\ Occurrences("OnSessionTerminated") = 0
    /\ dpc = "signal" =>
          /\ ~sessionOpen /\ ~doneFired
          /\ "OnSessionTerminated" \in transcriber
                => Occurrences("OnSessionTerminated") = 1
    /\ doneFired =>
          /\ ~sessionOpen
          /\ dpc \in {"check", "exited"}
          /\ "OnSessionTerminated" \in transcriber
                => Occurrences("OnSessionTerminated") = 1
    /\ Occurrences("OnSessionTerminated") <= 1

\* C21 witness: the signal was fired, the dispatcher left the loop, and a
\* second SessionTerminated is waiting unread
C21_Witness ==
    /\ doneFired /\ dpc = "exited" /\ rxn = 1
    /\ Occurrences("OnSessionTerminated") = 1
    /\ inbox # <<>> /\ inbox[1].mt = MessageTypeSessionTerminated

\* C22: under FairSpec a dispatcher that has reached the signal eventually
\* leaves the loop, whether or not a Disconnect waits for it.
C22_SignalNeverBlocksForever ==
    [](dpc = "signal" => <>(dpc = "exited"))

\* the dispatcher left the loop because a read failed
ReadFailed ==
    /\ dpc = "exited" /\ sessionOpen
    /\ rxn > 0 => UnmarshalMessageType(dmsg)

\* C23: a failed read is reported to the error callback (when registered)
\* exactly once, as the dispatcher's last callback, the dispatcher leaves the
\* loop, and the signal is not fired.
C23_ReadErrorEndsDispatcher ==
    /\ Cardinality({i \in 1..Len(cb) : cb[i].name = "OnError" /\ cb[i].text = "read"}) <= 1
    /\ ReadErrorObserved =>
          /\ dpc = "exited" /\ ~doneFired
          /\ cb[Len(cb)].name = "OnError" /\ cb[Len(cb)].text = "read"
    /\ ReadFailed =>
          /\ ~doneFired
          /\ "OnError" \in transcriber => ReadErrorObserved

\* C23 witness: the context was cancelled under a blocked read, the error
\* callback ran and the dispatcher left the loop
C23_Witness ==
    /\ ReadFailed /\ ReadErrorObserved
    /\ ctx = "cancelled" /\ rxn = 0

\* the callbacks recorded for the n-th message, a later read error aside
CallbacksFor(n) ==
    {i \in 1..Len(cb) : cb[i].msg = n /\ ~(cb[i].name = "OnError" /\ cb[i].text = "read")}

\* C24: after a message whose message_type does not decode, the error callback
\* (when registered) has been invoked for it and the dispatcher goes on
\* reading: it leaves the loop only through a later failed read.
C24_BadDiscriminatorSkipped ==
    (rxn > 0 /\ dmsg.object /\ dmsg.mt = BadType) =>
        /\ "OnError" \in transcriber => Deliveries("OnError", rxn) # {}
        /\ dpc = "exited" => conn = "closed"

\* the types the dispatcher's switch has a case for
Recognized ==
    {MessageTypeFinalTranscript, MessageTypePartialTranscript,
     MessageTypeSessionTerminated, MessageTypeSessionInformation}

\* a message of a recognized type one of whose fields has the wrong JSON type
\* for the struct of that type; SessionTerminated has no field but
\* message_type
Malformed(m) ==
    /\ m.object /\ m.mt \in Recognized
    /\ CASE m.mt \in {MessageTypeFinalTranscript, MessageTypePartialTranscript} ->
                m.text = BadType \/ m.rest # "ok"
         [] m.mt = MessageTypeSessionInformation -> m.rest # "ok"
         [] OTHER -> FALSE

\* C25: after a message of a recognized type whose full decode fails, the
\* error callback (when registered) has been invoked once for it and no other
\* callback has, the session flag is still open, the signal has not been
\* fired, and the dispatcher goes on reading: it leaves the loop only through
\* a later failed read.
C25_DecodeFailureNotFatal ==
    (rxn > 0 /\ Malformed(dmsg)) =>
        /\ \A i \in CallbacksFor(rxn) : cb[i].name = "OnError" /\ cb[i].text = "decode"
        /\ Cardinality(CallbacksFor(rxn)) = IF "OnError" \in transcriber THEN 1 ELSE 0
        /\ sessionOpen /\ ~doneFired
        /\ dpc \in {"check", "read", "exited"}
        /\ dpc = "exited" => conn = "closed"

\* C25 witness: a final transcript with a mistyped field was reported to the
\* error callback and the dispatcher is reading again
C25_Witness ==
    /\ rxn = 1 /\ Malformed(dmsg) /\ dmsg.mt = MessageTypeFinalTranscript
    /\ cb # <<>>
    /\ cb[Len(cb)].name = "OnError" /\ cb[Len(cb)].text = "decode"
    /\ dpc = "read"

\* C26: after a message whose discriminator is none of the recognized types no
\* callback has been invoked for it, the session flag is still open, the
\* signal has not been fired, and the dispatcher goes on reading: it leaves
\* the loop only through a later failed read.
C26_UnknownTypeIgnored ==
    (rxn > 0 /\ dmsg.object /\ dmsg.mt \notin Recognized \cup {BadType}) =>
        /\ CallbacksFor(rxn) = {}
        /\ sessionOpen /\ ~doneFired
        /\ dpc \in {"check", "read", "exited"}
        /\ dpc = "exited" => conn = "closed"

\* C26 witness: with every callback registered, a message of an unknown type
\* was read, only the session-begins callback has run, and the dispatcher is
\* reading again
C26_Witness ==
    /\ rxn = 1 /\ dmsg.mt = "SomethingNew"
    /\ transcriber = Callbacks /\ Len(cb) = 1
    /\ dpc = "read"

\* C27: under FairSpec, once the context is cancelled a started dispatcher
\* eventually leaves the loop.
C27_DispatcherEndsOnCancel ==
    []((ctx = "cancelled" /\ spawned = 1) => <>(dpc = "exited"))

ControlCalls == {"ForceEndUtterance", "SetEndUtteranceSilenceThreshold"}

C29_SessionBeginsFirst ==
    /\ cpc = "Connect_begins" => (sessionOpen /\ spawned = 0 /\ cb = <<>>)
    /\ cpc = "Connect_spawn" =>
          /\ sessionOpen /\ spawned = 0
          /\ Len(cb) = IF "OnSessionBegins" \in transcriber THEN 1 ELSE 0
    /\ Occurrences("OnSessionBegins") <= 1
    /\ ("OnSessionBegins" \in transcriber /\ (spawned = 1 \/ cb # <<>>)) =>
          /\ cb # <<>>
          /\ cb[1].name = "OnSessionBegins"

\* C29 witness: the session-begins callback was followed by a transcript and
\* by the session-terminated callback
C29_Witness ==
    /\ Len(cb) = 3
    /\ cb[1].name = "OnSessionBegins"
    /\ cb[2].name \in {"OnPartialTranscript", "OnFinalTranscript"}
    /\ cb[3].name = "OnSessionTerminated"

\* C30: the session flag is open exactly when the handshake has succeeded and
\* the dispatcher has not dispatched SessionTerminated; no call other than
\* Connect changes it and it is never reopened.
C30_DispatcherSoleCloser ==
    sessionOpen <=>
        /\ hmsg # NoMsg /\ HandshakeResult(hmsg) = "nil"
        /\ ~(rxn > 0 /\ dmsg.object /\ dmsg.mt = MessageTypeSessionTerminated)

\* C30 witness: after a Send, Disconnect(ctx, false) closed the connection and
\* returned nil, and the flag is still open
C30_Witness ==
    /\ ret.op.name = "Disconnect" /\ ~ret.op.wait /\ ret.val = "nil"
    /\ conn = "closed" /\ sessionOpen
    /\ \E i \in 1..Len(wire) : wire[i].kind = "binary"

\* C31: once a Disconnect has returned, with either wait value and whatever it
\* returned, the connection is closed, and a Send issued afterwards returns an
\* error and writes no frame.
C31_NoSendAfterDisconnect ==
    /\ ret.op.name = "Disconnect" => conn = "closed"
    /\ (ret.op.name = "Send" /\ ret.op.afterDisconnect) =>
          /\ ret.val \in {ErrSessionClosed, "errWrite"}
          /\ ret.op.writes = 0
          /\ conn = "closed"

\* C31 witness: after a Disconnect the flag was still open, so the Send went
\* to the transport, which refused the frame
C31_Witness ==
    /\ ret.op.name = "Send" /\ ret.op.afterDisconnect
    /\ ret.val = "errWrite" /\ sessionOpen
    /\ \E i \in 1..Len(wire) : wire[i].field = "terminate_session"

\* messages the server has sent since the handshake
ServerSent == srvSent + (IF replied THEN 1 ELSE 0)

\* C32: when Disconnect(ctx, true) has returned nil, the dispatcher has read
\* SessionTerminated and every message the server sent before it, whatever is
\* unread was sent after it, every callback for the earlier messages precedes
\* the session-terminated callback, and the dispatcher is in no callback.
C32_DispatchedBeforeDisconnectReturns ==
    (ret.op.name = "Disconnect" /\ ret.op.wait /\ ret.val = "nil") =>
        /\ doneFired
        /\ rxn > 0 /\ dmsg.mt = MessageTypeSessionTerminated
        /\ rxn + Len(inbox) = ServerSent
        /\ dpc \in {"check", "exited"}
        /\ \A i \in 1..Len(cb) : \A j \in 1..Len(cb) :
              (cb[i].msg < rxn /\ cb[j].msg = rxn) => i < j

\* C32 witness: Disconnect(ctx, true) returned nil after a transcript and the
\* session-terminated callback, in that order
C32_Witness ==
    /\ ret.op.name = "Disconnect" /\ ret.op.wait /\ ret.val = "nil"
    /\ rxn = 2 /\ Len(cb) = 3
    /\ cb[2].name \in {"OnPartialTranscript", "OnFinalTranscript"} /\ cb[2].msg = 1
    /\ cb[3].name = "OnSessionTerminated" /\ cb[3].msg = 2

\* C33: there is one dispatcher, and the callbacks it has invoked are in the
\* order in which their messages were read, after the session-begins
\* callback; a message has at most one callback.
C33_CallbacksInMessageOrder ==
    /\ spawned <= 1
    /\ \A i \in 1..Len(cb) : \A j \in 1..Len(cb) :
          i < j => /\ cb[i].msg <= cb[j].msg
                   /\ cb[j].name # "OnSessionBegins"
    /\ \A i \in 1..Len(cb) : cb[i].msg <= rxn
    /\ \A n \in 1..rxn : Cardinality(CallbacksFor(n)) <= 1

\* C33 witness: callbacks for the first and for the second message
C33_Witness ==
    /\ Len(cb) = 3
    /\ cb[1].name = "OnSessionBegins"
    /\ cb[2].msg = 1 /\ cb[3].msg = 2

\* C34: once the session-terminated callback has been invoked it is the last
\* callback of the session and is never invoked again.
C34_NothingAfterSessionTerminated ==
    SessionTerminatedInvoked =>
        /\ cb[Len(cb)].name = "OnSessionTerminated"
        /\ Occurrences("OnSessionTerminated") = 1
        /\ dpc \in {"signal", "check", "exited"}
        /\ dpc = "check" => ~sessionOpen

\* C34 witness: the session-terminated callback was the last one, the
\* dispatcher has left the loop and a later message is unread
C34_Witness ==
    /\ SessionTerminatedInvoked /\ cb[Len(cb)].name = "OnSessionTerminated"
    /\ dpc = "exited" /\ inbox # <<>>

\* C35: under FairSpec, a Disconnect(ctx, true) issued on a client whose
\* Connect dialed and then failed at the handshake eventually returns.
C35_DisconnectAfterFailedHandshakeReturns ==
    []((cop.name = "Disconnect" /\ cop.wait /\ conn # "nil" /\ spawned = 0)
         => <>(ret.op.name = "Disconnect"))

\* C36: under SpecHandshake, a first message whose discriminator is not
\* SessionBegins leaves the session closed, the session-begins callback uninvoked and no dispatcher
\* started.
C36_OpenOnlyOnSessionBegins ==
    (hmsg # NoMsg /\ hmsg.mt # MessageTypeSessionBegins) =>
        /\ ~sessionOpen
        /\ ~SessionBeginsInvoked
        /\ spawned = 0 /\ dpc = "none"

\* C37: after a PartialTranscript, FinalTranscript or SessionInformation
\* message the flag is open and the signal unfired, and a dispatcher that has
\* left the loop did so on SessionTerminated or on a failed read.
C37_OnlyTerminationEndsDispatcher ==
    /\ (rxn > 0 /\ dmsg.object
            /\ dmsg.mt \in {MessageTypePartialTranscript, MessageTypeFinalTranscript,
                            MessageTypeSessionInformation}) =>
          (sessionOpen /\ ~doneFired)
    /\ dpc = "exited" =>
          \/ rxn > 0 /\ dmsg.mt = MessageTypeSessionTerminated /\ ~sessionOpen
          \/ conn = "closed"

\* C38: a client constructed without a transcriber option is constructed
\* without fault, and its query disables partial transcripts.
C38_ConstructWithoutTranscriber ==
    config.transcriberSet = "none" =>
        /\ cpc # "panic"
        /\ Constructed =>
              Get(ParseQuery(config.rawQuery), "disable_partial_transcripts") = <<"true">>

====
